---- MODULE Spec2Model ----
(***************************************************************************)
(* Model of the multi-location coherence bookkeeping of fast::Image2D      *)
(* (Data/Image2D.cpp): one image object, its host copy, its per-device     *)
(* OpenCL copies, the up-to-date and being-accessed flags, and the         *)
(* accessors handed out by getImageAccess / getOpenCLImageAccess.          *)
(*                                                                         *)
(* The C++ methods are modelled as operators from an image record to the   *)
(* SET of outcomes the call can have.  An outcome is the image after the   *)
(* call together with a status: "ok", the exception thrown, or "crash"     *)
(* where the call runs into undefined behaviour (a NULL buffer is          *)
(* dereferenced).  Undefined behaviour and unspecified hash-map iteration  *)
(* order are nondeterministic choices.                                     *)
(***************************************************************************)
EXTENDS Integers, FiniteSets, Sequences, TLC

\* ------------------------------------------------------------------ bounds
NumDevices == 2
MaxAccessors == 2
MaxCalls == 5
\* longest frame sequence of a DynamicImage input
MaxFrames == 2
\* number of calls made on the filter stage and its output in one behaviour
MaxStageCalls == 4
\* number of access requests that the threads make in one behaviour
MaxRequests == 3
\* longest side of an image that the host algorithm is run on
MaxSide == 4

\* --------------------------------------------------------------- universes
Host == 0
Devices == 1..NumDevices
Locations == {Host} \cup Devices
NoLocation == 0 - 1
\* image contents: the code never branches on a pixel value, so two contents
\* (a pattern and anything else) are enough to tell a faithful copy from a wrong one
Patterns == {0, 1}
NoPattern == 0 - 1
\* the (width, height, type, nrOfComponents) argument tuples that are tried
Shapes == {<<4, 4, "TYPE_FLOAT", 1>>, <<2, 3, "TYPE_UINT8", 2>>}
\* the value of a field the constructor leaves uninitialised; the model never reads it
IndeterminateSize == 0 - 1
IndeterminateType == "indeterminate"
AccessTypes == {"ACCESS_READ", "ACCESS_READ_WRITE"}
\* the two threads that use one object at the same time
Threads == {1, 2}

VARIABLES
    image,       \* the fields of the Image2D object
    accessors,   \* outstanding accessors: (location, access type) -> count
    crashed,     \* the process ran into undefined behaviour and died
    lastCall,    \* the operation performed by the last step and its access type
    lastStatus,  \* its outcome: "ok", the exception thrown, or "crash"
    created,     \* a createImage call has succeeded on the object
    written,     \* the last pattern written through a ReadWrite accessor
    calls,       \* number of calls made on the object so far
    stage,       \* the fields of the GaussianSmoothingFilter object
    heap,        \* the data objects that are alive: object id -> object
    hist,        \* what the stage has done so far (counters of its work)
    threads,     \* where each thread is in the access request it is making
    loop         \* the loops of the host algorithm: their arguments and position

vars == <<image, accessors, crashed, lastCall, lastStatus, created, written, calls,
          stage, heap, hist, threads, loop>>

\* ------------------------------------------------------------ map helpers
EmptyMap == [d \in {} |-> FALSE]

\* m[k] = v of boost::unordered_map (inserts the key when missing)
Put(m, k, v) == [x \in (DOMAIN m) \cup {k} |-> IF x = k THEN v ELSE m[x]]

\* m[k] of boost::unordered_map used as an rvalue: inserts the default
Touch(m, k, default) == IF k \in DOMAIN m THEN m ELSE Put(m, k, default)

\* ---------------------------------------------------------------- outcomes
Ok(img) == [img |-> img, status |-> "ok"]

Throw(img, what) == [img |-> img, status |-> what]

Crash(img) == [img |-> img, status |-> "crash"]

\* sequential composition: run F on the image of every outcome that returned
Then(outs, F(_)) == UNION {IF o.status = "ok" THEN F(o.img) ELSE {o} : o \in outs}

\* ------------------------------------------------------------ Image2D code
Image2D ==
    [mHostData |-> "NULL",
     hostContent |-> 0,
     mHostHasData |-> FALSE,
     mHostDataIsUpToDate |-> FALSE,
     mHostDataIsBeingAccessed |-> FALSE,
     mCLImages |-> EmptyMap,
     clContent |-> [d \in Devices |-> 0],
     mCLImagesIsUpToDate |-> EmptyMap,
     mCLImagesAccess |-> EmptyMap,
     mWidth |-> IndeterminateSize, mHeight |-> IndeterminateSize,
     mType |-> IndeterminateType, mComponents |-> IndeterminateSize]

\* a variant that forgets the host copy
isAnyDataBeingAccessed_DevicesOnly(s) ==
    \E d \in DOMAIN s.mCLImagesAccess : s.mCLImagesAccess[d]

isAnyDataBeingAccessed(s) ==
    \/ s.mHostDataIsBeingAccessed
    \/ \E d \in DOMAIN s.mCLImagesAccess : s.mCLImagesAccess[d]

\* enqueueWriteImage(*mCLImages[device], ..., mHostData).  A NULL image pointer
\* is dereferenced (undefined: the process dies or the call has no effect); a
\* NULL host pointer is rejected by OpenCL (the error is thrown or dropped,
\* depending on how the OpenCL wrapper is built) and nothing is copied.
transferCLImageFromHost(s, device) ==
    LET s1 == [s EXCEPT !.mCLImages = Touch(s.mCLImages, device, "NULL")]
    IN  IF s1.mCLImages[device] = "NULL"
        THEN {Crash(s1), Ok(s1)}
        ELSE IF s1.mHostData = "NULL"
        THEN {Throw(s1, "CLError"), Ok(s1)}
        ELSE {Ok([s1 EXCEPT !.clContent[device] = s1.hostContent])}

\* enqueueReadImage(*mCLImages[device], ..., mHostData), as above
transferCLImageToHost(s, device) ==
    LET s1 == [s EXCEPT !.mCLImages = Touch(s.mCLImages, device, "NULL")]
    IN  IF s1.mCLImages[device] = "NULL"
        THEN {Crash(s1), Ok(s1)}
        ELSE IF s1.mHostData = "NULL"
        THEN {Throw(s1, "CLError"), Ok(s1)}
        ELSE {Ok([s1 EXCEPT !.hostContent = s1.clContent[device]])}

\* lines 63-86 of updateOpenCLImageData: find a copy that is up to date
findUpToDateForDevice(s, device) ==
    IF s.mHostDataIsUpToDate
    THEN transferCLImageFromHost(s, device)
    ELSE LET upToDate == {d \in DOMAIN s.mCLImagesIsUpToDate : s.mCLImagesIsUpToDate[d]}
         IN  IF upToDate = {}
             THEN {Throw(s, "NotUpToDate")}
             ELSE UNION {Then(Then(transferCLImageToHost(s, d),
                                   LAMBDA t : transferCLImageFromHost(t, device)),
                              LAMBDA t : {Ok([t EXCEPT !.mHostDataIsUpToDate = TRUE])})
                         : d \in upToDate}

updateOpenCLImageData(s, device) ==
    IF device \in DOMAIN s.mCLImagesIsUpToDate /\ s.mCLImagesIsUpToDate[device]
    THEN {Ok(s)}
    ELSE LET allocated ==
                 IF device \notin DOMAIN s.mCLImagesIsUpToDate
                 THEN {[s EXCEPT !.mCLImages = Put(s.mCLImages, device, "buf"),
                                 !.clContent[device] = j,
                                 !.mCLImagesIsUpToDate = Put(s.mCLImagesIsUpToDate, device, TRUE),
                                 !.mCLImagesAccess = Put(s.mCLImagesAccess, device, TRUE)]
                       : j \in Patterns}
                 ELSE {s}
         IN  UNION {findUpToDateForDevice(s1, device) : s1 \in allocated}

updateHostData(s) ==
    IF s.mHostDataIsUpToDate
    THEN {Ok(s)}
    ELSE LET allocated ==
                 IF ~s.mHostHasData
                 THEN {[s EXCEPT !.mHostData = "buf", !.hostContent = j] : j \in Patterns}
                 ELSE {s}
             find(s1) ==
                 IF Cardinality(DOMAIN s1.mCLImages) > 0
                 THEN LET upToDate == {d \in DOMAIN s1.mCLImagesIsUpToDate :
                                           s1.mCLImagesIsUpToDate[d]}
                      IN  IF upToDate = {}
                          THEN {Throw(s1, "NotUpToDate")}
                          ELSE UNION {transferCLImageToHost(s1, d) : d \in upToDate}
                 ELSE {Ok(s1)}
         IN  UNION {find(s1) : s1 \in allocated}

\* a variant that leaves the host flag as it is
setAllDataToOutOfDate_KeepsHost(s) ==
    [s EXCEPT !.mCLImagesIsUpToDate = [d \in DOMAIN s.mCLImagesIsUpToDate |-> FALSE]]

setAllDataToOutOfDate(s) ==
    [s EXCEPT !.mHostDataIsUpToDate = FALSE,
              !.mCLImagesIsUpToDate = [d \in DOMAIN s.mCLImagesIsUpToDate |-> FALSE]]

\* a variant whose ReadWrite branch does not mark the target up to date
getOpenCLImageAccess_LeavesTargetStale(s, type, device) ==
    IF type = "ACCESS_READ_WRITE" /\ isAnyDataBeingAccessed(s)
    THEN {Throw(s, "AlreadyAccessed")}
    ELSE LET s1 == IF type = "ACCESS_READ_WRITE" THEN setAllDataToOutOfDate(s) ELSE s
             s2 == [s1 EXCEPT !.mCLImagesAccess = Put(s1.mCLImagesAccess, device, TRUE)]
         IN  Then(updateOpenCLImageData(s2, device),
                  LAMBDA t : {Ok([t EXCEPT !.mCLImages = Touch(t.mCLImages, device, "NULL"),
                                           !.mCLImagesAccess =
                                               Touch(t.mCLImagesAccess, device, FALSE)])})

getOpenCLImageAccess(s, type, device) ==
    IF type = "ACCESS_READ_WRITE" /\ isAnyDataBeingAccessed(s)
    THEN {Throw(s, "AlreadyAccessed")}
    ELSE LET s1 == IF type = "ACCESS_READ_WRITE"
                   THEN LET t == setAllDataToOutOfDate(s)
                        IN  [t EXCEPT !.mCLImagesIsUpToDate =
                                          Put(t.mCLImagesIsUpToDate, device, TRUE)]
                   ELSE s
             s2 == [s1 EXCEPT !.mCLImagesAccess = Put(s1.mCLImagesAccess, device, TRUE)]
         IN  Then(updateOpenCLImageData(s2, device),
                  LAMBDA t : {Ok([t EXCEPT !.mCLImages = Touch(t.mCLImages, device, "NULL"),
                                           !.mCLImagesAccess =
                                               Touch(t.mCLImagesAccess, device, FALSE)])})

getImageAccess(s, type) ==
    IF type = "ACCESS_READ_WRITE" /\ isAnyDataBeingAccessed(s)
    THEN {Throw(s, "AlreadyAccessed")}
    ELSE LET s1 == IF type = "ACCESS_READ_WRITE"
                   THEN [setAllDataToOutOfDate(s) EXCEPT !.mHostDataIsUpToDate = TRUE,
                                                         !.mHostDataIsBeingAccessed = TRUE]
                   ELSE s
         IN  updateHostData(s1)

\* a variant that looks at the host copy only
isInitialized_HostOnly(s) == s.mHostHasData

isInitialized(s) == Cardinality(DOMAIN s.mCLImages) > 0 \/ s.mHostHasData

\* createImage(width, height, type, nrOfComponents, device)
createImage(s, w, h, t, c, device) ==
    IF isInitialized(s)
    THEN {Throw(s, "AlreadyInitialized")}
    ELSE LET s1 == [s EXCEPT !.mWidth = w, !.mHeight = h, !.mType = t, !.mComponents = c]
         IN  IF device = Host
             THEN {Ok([s1 EXCEPT !.mHostHasData = TRUE, !.mHostData = "buf",
                                 !.hostContent = j]) : j \in Patterns}
             ELSE {Ok([s1 EXCEPT !.mCLImages = Put(s1.mCLImages, device, "buf"),
                                 !.clContent[device] = j,
                                 !.mCLImagesIsUpToDate = Put(s1.mCLImagesIsUpToDate, device, TRUE),
                                 !.mCLImagesAccess = Put(s1.mCLImagesAccess, device, FALSE)])
                   : j \in Patterns}

\* createImage(width, height, type, nrOfComponents, device, data)
createImageWithData(s, w, h, t, c, device, data) ==
    IF isInitialized(s)
    THEN {Throw(s, "AlreadyInitialized")}
    ELSE LET s1 == [s EXCEPT !.mWidth = w, !.mHeight = h, !.mType = t, !.mComponents = c]
             done(x) == [x EXCEPT !.mHostHasData = TRUE, !.mHostDataIsUpToDate = TRUE]
         IN  IF device = Host
             THEN IF s1.mHostData = "NULL"
                  THEN {Crash(s1), Ok(done(s1))}
                  ELSE {Ok(done([s1 EXCEPT !.hostContent = data]))}
             ELSE {Ok([s1 EXCEPT !.mCLImages = Put(s1.mCLImages, device, "buf"),
                                 !.clContent[device] = data,
                                 !.mCLImagesIsUpToDate = Put(s1.mCLImagesIsUpToDate, device, TRUE),
                                 !.mCLImagesAccess = Put(s1.mCLImagesAccess, device, FALSE)])}

\* ------------------------------------------------------- accessor objects
\* a variant that clears the flag of every location
releaseAccess_ClearsAll(s, loc) ==
    [s EXCEPT !.mHostDataIsBeingAccessed = FALSE,
              !.mCLImagesAccess = [d \in DOMAIN s.mCLImagesAccess |-> FALSE]]

\* destruction of an ImageAccess2D / OpenCLImageAccess2D: the accessor was
\* built with a pointer to the being-accessed flag of its location
releaseAccess(s, loc) ==
    IF loc = Host
    THEN [s EXCEPT !.mHostDataIsBeingAccessed = FALSE]
    ELSE [s EXCEPT !.mCLImagesAccess[loc] = FALSE]

\* what the pointer held by an accessor at loc refers to
contentAt(s, loc) ==
    IF loc = Host
    THEN IF s.mHostData = "buf" THEN s.hostContent ELSE NoPattern
    ELSE IF loc \in DOMAIN s.mCLImages /\ s.mCLImages[loc] = "buf"
         THEN s.clContent[loc]
         ELSE NoPattern

\* a store through the pointer of a ReadWrite accessor at loc
writeThrough(s, loc, p) ==
    IF contentAt(s, loc) = NoPattern
    THEN {Crash(s), Ok(s)}
    ELSE IF loc = Host
         THEN {Ok([s EXCEPT !.hostContent = p])}
         ELSE {Ok([s EXCEPT !.clContent[loc] = p])}

\* ------------------------------------------------- data objects of a pipeline
\* an invalid (null) smart pointer
NoObject == 0
\* the object the upstream collaborator hands to setInput
InputId == 1
\* (shape, dimensions) of the images and frames an importer or streamer supplies
FrameKinds == {<<<<4, 4, "TYPE_FLOAT", 1>>, 2>>, <<<<2, 3, "TYPE_UINT8", 2>>, 3>>}

\* Image::New(): an image object that has not been created yet.  frameNo names
\* the input frame the pixels are (computed from), 0 when there are none;
\* holders counts the strong references held outside the stage
NewImage ==
    [kind |-> "Image", img |-> Image2D, dims |-> 0, frameNo |-> 0, timestamp |-> 0,
     frames |-> << >>, cursor |-> 1, holders |-> 0, parent |-> FALSE,
     retained |-> [l \in Locations |-> 0]]

\* DynamicImage::New(): an empty sequence of frames
NewDynamicImage == [NewImage EXCEPT !.kind = "DynamicImage"]

\* an image of kind k = (shape, dimensions) filled on the host by its producer:
\* created there, written through a ReadWrite accessor, accessor released
ImportedImage(k, n) ==
    [NewImage EXCEPT
        !.img = [Image2D EXCEPT !.mWidth = k[1][1], !.mHeight = k[1][2],
                                !.mType = k[1][3], !.mComponents = k[1][4],
                                !.mHostHasData = TRUE, !.mHostData = "buf",
                                !.mHostDataIsUpToDate = TRUE],
        !.dims = k[2], !.frameNo = n, !.holders = 1]

\* a streamed sequence whose frames are of the kinds ks
ImportedDynamicImage(ks) ==
    [NewDynamicImage EXCEPT !.frames = [i \in 1..Len(ks) |-> ImportedImage(ks[i], i)],
                            !.holders = 1]

FrameSequences == UNION {[1..n -> FrameKinds] : n \in 0..MaxFrames}

\* the objects an upstream collaborator can supply
Inputs == {ImportedImage(k, 1) : k \in FrameKinds}
              \cup {ImportedDynamicImage(ks) : ks \in FrameSequences}

\* a reference to an image: <<object, 0>> or <<dynamic object, frame index>>
ImgAt(h, r) == IF r[2] = 0 THEN h[r[1]] ELSE h[r[1]].frames[r[2]]

SetImg(h, r, v) ==
    IF r[2] = 0 THEN [h EXCEPT ![r[1]] = v] ELSE [h EXCEPT ![r[1]].frames[r[2]] = v]

\* run a call on the Image2D part of the image r of world w
OnImage(w, r, outs) ==
    {[img |-> [w EXCEPT !.heap = SetImg(w.heap, r, [ImgAt(w.heap, r) EXCEPT !.img = o.img])],
      status |-> o.status] : o \in outs}

\* shared-pointer bookkeeping: an object nobody holds is destroyed
Collect(w) ==
    LET live == {id \in DOMAIN w.heap :
                    \/ w.heap[id].holders > 0
                    \/ id = w.stage.mInput
                    \/ id = w.stage.mTempOutput}
    IN  [w EXCEPT !.heap = [id \in live |-> w.heap[id]]]

\* weak_ptr::lock().isValid()
IsAlive(w, id) == id \in DOMAIN w.heap

\* ------------------------------------------- GaussianSmoothingFilter code
\* the values tried as arguments of the setters (maskSize is an unsigned char)
MaskSizeArgs == {0, 4, 5, 256}
StdDevArgs == {0 - 1, 0, 2}
NoMask == <<>>
NoKernel == <<>>
NoReturn == 0 - 1
\* DeviceManager::getDefaultComputationDevice(): the first OpenCL device
DefaultComputationDevice == 1

\* the constructor; mTypeCLCodeCompiledFor and mMask are left uninitialised
GaussianSmoothingFilter(defaultDevice) ==
    [mInput |-> NoObject, mTempOutput |-> NoObject, mOutput |-> NoObject,
     mDevice |-> defaultDevice, mStdDev |-> 1, mMaskSize |-> 3,
     mIsModified |-> TRUE, mRecreateMask |-> TRUE,
     mDimensionCLCodeCompiledFor |-> 0, mTypeCLCodeCompiledFor |-> IndeterminateType,
     mMask |-> NoMask, mCLMask |-> NoMask, mKernel |-> NoKernel,
     parents |-> {}]

\* the work of the stage so far; returned is the pointer the last getOutput gave;
\* heldAtDispatch are the being-accessed flags of input and output at the
\* location of the last dispatch, as they were when it was issued;
\* pulls are the outcomes of the executes made since the last parameter setter
\* call on the wired stage, with the counters as they were at that call
NoWork ==
    [pulled |-> 0, masks |-> 0, compiles |-> 0, accesses |-> 0, dispatches |-> 0,
     created |-> 0, handovers |-> 0, returned |-> NoReturn,
     tracking |-> FALSE, pulls |-> << >>, masksAtSetter |-> 0, compilesAtSetter |-> 0,
     heldAtDispatch |-> <<FALSE, FALSE>>]

\* the id of the next object that New() makes
NextId(w) == InputId + w.hist.created + 1

\* a variant whose placeholder is also held by somebody else
setInput_SharedPlaceholder(w, input) ==
    LET id == NextId(w)
    IN  {Ok([w EXCEPT !.stage.mInput = input,
                      !.heap = Put(w.heap, id, [NewImage EXCEPT !.holders = 1]),
                      !.hist.created = @ + 1,
                      !.stage.mTempOutput = id,
                      !.stage.mOutput = id])}

setInput(w, input) ==
    LET w1 == [w EXCEPT !.stage.mInput = input,
                        !.stage.mIsModified = TRUE,
                        !.stage.parents = @ \cup {input}]
    IN  IF input = NoObject
        THEN {Crash(w1)}    \* input->isDynamicData() through a null pointer
        ELSE LET id == NextId(w1)
                 dyn == w1.heap[input].kind = "DynamicImage"
                 obj == IF dyn THEN NewDynamicImage ELSE NewImage
                 h1 == Put(w1.heap, id, obj)
                 h2 == IF dyn THEN h1
                       ELSE [h1 EXCEPT ![input].retained[w1.stage.mDevice] = @ + 1]
             IN  {Ok(Collect([w1 EXCEPT !.heap = h2,
                                        !.hist.created = @ + 1,
                                        !.stage.mTempOutput = id,
                                        !.stage.mOutput = id]))}

\* a variant that leaves the mask as it is
setDevice_KeepsMask(w, device) ==
    {Ok([w EXCEPT !.stage.mDevice = device,
                  !.stage.mIsModified = TRUE])}

setDevice(w, device) ==
    {Ok([w EXCEPT !.stage.mDevice = device,
                  !.stage.mIsModified = TRUE,
                  !.stage.mRecreateMask = TRUE])}

\* a variant that stores the value before it is checked
setMaskSize_StoresFirst(w, arg) ==
    LET maskSize == arg % 256
        w1 == [w EXCEPT !.stage.mMaskSize = maskSize]
    IN  IF maskSize % 2 # 1 THEN {Throw(w1, "Exception")} ELSE {Ok(w1)}

setMaskSize(w, arg) ==
    LET maskSize == arg % 256
    IN  IF maskSize % 2 # 1
        THEN {Throw(w, "Exception")}
        ELSE {Ok([w EXCEPT !.stage.mMaskSize = maskSize,
                           !.stage.mIsModified = TRUE,
                           !.stage.mRecreateMask = TRUE])}

setStandardDeviation(w, stdDev) ==
    IF stdDev <= 0
    THEN {Throw(w, "Exception")}
    ELSE {Ok([w EXCEPT !.stage.mStdDev = stdDev,
                       !.stage.mIsModified = TRUE,
                       !.stage.mRecreateMask = TRUE])}

\* a variant that makes the output when none is there
getOutput_CreatesWhenUnwired(w) ==
    LET id == NextId(w)
    IN  {Ok([w EXCEPT !.heap = Put(w.heap, id, [NewImage EXCEPT !.holders = 1]),
                      !.hist.created = @ + 1,
                      !.hist.returned = id])}

getOutput(w) ==
    IF w.stage.mInput = NoObject
    THEN {Throw(w, "Exception")}
    ELSE IF w.stage.mTempOutput # NoObject
         THEN LET id == w.stage.mTempOutput
              IN  {Ok([w EXCEPT !.heap[id].parent = TRUE,
                                !.heap[id].holders = @ + 1,
                                !.stage.mTempOutput = NoObject,
                                !.hist.handovers = @ + 1,
                                !.hist.returned = id])}
         ELSE IF IsAlive(w, w.stage.mOutput)
              THEN {Ok([w EXCEPT !.heap[w.stage.mOutput].holders = @ + 1,
                                 !.hist.returned = w.stage.mOutput])}
              ELSE {Ok([w EXCEPT !.hist.returned = NoObject])}

\* what the OpenCL runtime can refuse during one execute
EnvFailures == {"none", "mask", "compile", "dispatch"}

\* DynamicImage::getNextFrame(): the frame under the cursor, which then advances;
\* past the last frame there is no more data
getNextFrame(w, id) ==
    IF w.heap[id].cursor > Len(w.heap[id].frames)
    THEN {Throw(w, "NoMoreData")}
    ELSE {Ok([w EXCEPT !.heap[id].cursor = @ + 1, !.hist.pulled = @ + 1])}

\* DynamicImage::addFrame(frame)
addFrame(w, id, frame) == [w EXCEPT !.heap[id].frames = Append(@, frame)]

\* a variant that recomputes on every call
createMask_Always(w, in, env) ==
    LET w1 == [w EXCEPT !.stage.mMask = <<w.stage.mMaskSize, w.stage.mStdDev, in.dims>>,
                        !.hist.masks = @ + 1]
    IN  {Ok([w1 EXCEPT !.stage.mRecreateMask = FALSE])}

createMask(w, in, env) ==
    IF ~w.stage.mRecreateMask
    THEN {Ok(w)}
    ELSE LET w1 == [w EXCEPT !.stage.mMask = <<w.stage.mMaskSize, w.stage.mStdDev, in.dims>>,
                             !.hist.masks = @ + 1]
         IN  IF w1.stage.mDevice = Host
             THEN {Ok([w1 EXCEPT !.stage.mRecreateMask = FALSE])}
             ELSE IF env = "mask"
                  THEN {Throw(w1, "CLError")}
                  ELSE {Ok([w1 EXCEPT !.stage.mCLMask = <<w1.stage.mMask, w1.stage.mDevice>>,
                                      !.stage.mRecreateMask = FALSE])}

BuildOptions(type) ==
    IF type = "TYPE_FLOAT" THEN "-DTYPE_FLOAT"
    ELSE IF type \in {"TYPE_INT8", "TYPE_INT16"} THEN "-DTYPE_INT"
    ELSE "-DTYPE_UINT"

recompileOpenCLCode(w, in, env) ==
    IF /\ in.dims = w.stage.mDimensionCLCodeCompiledFor
       /\ in.img.mType = w.stage.mTypeCLCodeCompiledFor
    THEN {Ok(w)}
    ELSE IF env = "compile"
         THEN {Throw(w, "CLError")}
         ELSE {Ok([w EXCEPT !.stage.mKernel =
                                <<in.dims, BuildOptions(in.img.mType), w.stage.mDevice>>,
                            !.stage.mDimensionCLCodeCompiledFor = in.dims,
                            !.stage.mTypeCLCodeCompiledFor = in.img.mType,
                            !.hist.compiles = @ + 1])}

\* the accessors of input (Read) and output (ReadWrite) at loc, both destroyed
\* when the scope that declared them is left, by return or by exception
WithAccessors(w, ri, ro, loc, Body(_)) ==
    LET inAcc == IF loc = Host
                 THEN getImageAccess(ImgAt(w.heap, ri).img, "ACCESS_READ")
                 ELSE getOpenCLImageAccess(ImgAt(w.heap, ri).img, "ACCESS_READ", loc)
        outAcc(v) == IF loc = Host
                     THEN getImageAccess(ImgAt(v.heap, ro).img, "ACCESS_READ_WRITE")
                     ELSE getOpenCLImageAccess(ImgAt(v.heap, ro).img, "ACCESS_READ_WRITE", loc)
        count(v) == [v EXCEPT !.hist.accesses = @ + 1]
        drop(v, r) == [v EXCEPT !.heap = SetImg(v.heap, r,
                          [ImgAt(v.heap, r) EXCEPT !.img = releaseAccess(@, loc)])]
        leave(outs, r) ==
            {IF o.status = "crash" THEN o ELSE [o EXCEPT !.img = drop(o.img, r)] : o \in outs}
    IN  Then(OnImage(w, ri, inAcc),
             LAMBDA v : leave(Then(OnImage(count(v), ro, outAcc(count(v))),
                                   LAMBDA u : leave(Body(count(u)), ro)),
                              ri))

\* the pixels of output ro are computed at loc from those of input ri
Filter(w, ri, ro, loc) ==
    LET p == contentAt(ImgAt(w.heap, ri).img, loc)
        \* the being-accessed flag of loc on image r when the work is issued
        held(r) == LET s == ImgAt(w.heap, r).img
                   IN  IF loc = Host
                       THEN s.mHostDataIsBeingAccessed
                       ELSE loc \in DOMAIN s.mCLImagesAccess /\ s.mCLImagesAccess[loc]
    IN  IF p = NoPattern
        THEN {Crash(w)}
        ELSE Then(OnImage(w, ro, writeThrough(ImgAt(w.heap, ro).img, loc, p)),
                  LAMBDA v : {Ok([v EXCEPT
                      !.heap = SetImg(v.heap, ro, [ImgAt(v.heap, ro) EXCEPT
                                                      !.frameNo = ImgAt(v.heap, ri).frameNo]),
                      !.hist.dispatches = @ + 1,
                      !.hist.heldAtDispatch = <<held(ri), held(ro)>>])})

executeAlgorithmOnHost(w, ri, ro) ==
    IF ImgAt(w.heap, ri).img.mComponents # 1
    THEN {Throw(w, "Exception")}
    ELSE WithAccessors(w, ri, ro, Host, LAMBDA v : Filter(v, ri, ro, Host))

\* lines 243-271: the device branch of execute
executeOnDevice(w, ri, ro, env) ==
    LET device == w.stage.mDevice
        setArgs(v) == IF \/ contentAt(ImgAt(v.heap, ri).img, device) = NoPattern
                         \/ contentAt(ImgAt(v.heap, ro).img, device) = NoPattern
                      THEN {Crash(v)}
                      ELSE {Ok(v)}
    IN  Then(recompileOpenCLCode(w, ImgAt(w.heap, ri), env),
             LAMBDA w1 : Then(WithAccessors(w1, ri, ro, device, setArgs),
                              LAMBDA w2 : IF env = "dispatch"
                                          THEN {Throw(w2, "CLError")}
                                          ELSE Filter(w2, ri, ro, device)))

\* lines 205-278: execute once input and output are known to be there
executeWork(w, env) ==
      LET inId == w.stage.mInput
          outId == w.stage.mOutput
          dyn == w.heap[inId].kind = "DynamicImage"
          ri == IF dyn THEN <<inId, w.heap[inId].cursor>> ELSE <<inId, 0>>
          ro == IF dyn THEN <<outId, Len(w.heap[outId].frames) + 1>> ELSE <<outId, 0>>
          resolve == IF dyn THEN getNextFrame(w, inId) ELSE {Ok(w)}
          attach(v) == IF dyn THEN addFrame(v, outId, NewImage) ELSE v
          \* an input that was never created has indeterminate size, type and
          \* dimensions: the reads of lines 220-232 find whatever is in memory
          settle(v) ==
              LET in == ImgAt(v.heap, ri)
              IN  IF in.dims # 0
                  THEN {Ok(v)}
                  ELSE {Crash(v)} \cup
                       {Ok([v EXCEPT !.heap = SetImg(v.heap, ri,
                               [in EXCEPT !.dims = k[2],
                                          !.img.mWidth = k[1][1], !.img.mHeight = k[1][2],
                                          !.img.mType = k[1][3], !.img.mComponents = k[1][4]])])
                        : k \in FrameKinds}
          create(v) ==
              LET in == ImgAt(v.heap, ri)
              IN  Then(OnImage(v, ro, createImage(ImgAt(v.heap, ro).img, in.img.mWidth,
                                   in.img.mHeight, in.img.mType, in.img.mComponents,
                                   v.stage.mDevice)),
                       LAMBDA u : {Ok([u EXCEPT !.heap = SetImg(u.heap, ro,
                                        [ImgAt(u.heap, ro) EXCEPT
                                            !.dims = IF in.dims = 2 THEN 2 ELSE 3])])})
          run(v) == IF v.stage.mDevice = Host
                    THEN executeAlgorithmOnHost(v, ri, ro)
                    ELSE executeOnDevice(v, ri, ro, env)
          finish(v) ==
              LET v1 == IF dyn THEN v
                        ELSE [v EXCEPT !.heap[inId].retained[v.stage.mDevice] = @ - 1]
              IN  {Ok([v1 EXCEPT !.heap = SetImg(v1.heap, ro,
                            [ImgAt(v1.heap, ro) EXCEPT !.timestamp = @ + 1])])}
      IN  Then(resolve, LAMBDA w0 :
          Then(settle(attach(w0)), LAMBDA w1 :
          Then(create(w1), LAMBDA w2 :
          Then(createMask(w2, ImgAt(w2.heap, ri), env), LAMBDA w3 :
          Then(run(w3), finish)))))

\* a variant that refreshes the mask before it looks at the output reference
execute_MaskBeforeElision(w, env) ==
    IF w.stage.mInput = NoObject
    THEN {Throw(w, "Exception")}
    ELSE IF ~IsAlive(w, w.stage.mOutput)
    THEN {Ok([w EXCEPT !.stage.mRecreateMask = FALSE, !.hist.masks = @ + 1])}
    ELSE executeWork(w, env)

execute(w, env) ==
    IF w.stage.mInput = NoObject
    THEN {Throw(w, "Exception")}
    ELSE IF ~IsAlive(w, w.stage.mOutput)
    THEN {Ok(w)}
    ELSE executeWork(w, env)

\* ------------------------------------------------------------ the machine
NoCall == [op |-> "none", type |-> "none"]

NoWrite == [loc |-> NoLocation, pat |-> NoPattern]

AccessorKeys == Locations \X AccessTypes

\* a thread that is not inside an access request
Idle == [pc |-> "idle", type |-> "none", loc |-> NoLocation]

NoThreads == [t \in Threads |-> Idle]

\* the host algorithm is not running
NoLoop == [pc |-> "idle", dims |-> 0, width |-> 0, height |-> 0, depth |-> 0,
           maskSize |-> 0, x |-> 0, y |-> 0, z |-> 0, pixels |-> 0, strayed |-> FALSE]

NrOfAccessors ==
    LET RECURSIVE sum(_)
        sum(S) == IF S = {} THEN 0
                  ELSE LET k == CHOOSE k \in S : TRUE
                       IN  accessors[k] + sum(S \ {k})
    IN  sum(AccessorKeys)

Init ==
    /\ image = Image2D
    /\ accessors = [k \in AccessorKeys |-> 0]
    /\ crashed = FALSE
    /\ lastCall = NoCall
    /\ lastStatus = "ok"
    /\ created = FALSE
    /\ written = NoWrite
    /\ calls = 0
    /\ stage = GaussianSmoothingFilter(Host)
    /\ heap = EmptyMap
    /\ hist = NoWork
    /\ threads = NoThreads
    /\ loop = NoLoop

\* the common end of every call: o is the outcome the call had
Finish(o, op, type) ==
    /\ calls < MaxCalls
    /\ calls' = calls + 1
    /\ lastCall' = [op |-> op, type |-> type]
    /\ lastStatus' = o.status
    /\ crashed' = (o.status = "crash")
    /\ image' = IF o.status = "crash" THEN image ELSE o.img
    /\ UNCHANGED <<stage, heap, hist, threads, loop>>

\* the end of an access request made with (type, loc): a granted request
\* leaves one more accessor outstanding
Grant(o, type, loc) ==
    /\ o.status = "ok" => NrOfAccessors < MaxAccessors
    /\ accessors' = IF o.status = "ok"
                    THEN [accessors EXCEPT ![<<loc, type>>] = @ + 1]
                    ELSE accessors
    /\ written' = IF o.status = "ok" /\ type = "ACCESS_READ_WRITE" THEN NoWrite ELSE written
    /\ UNCHANGED created

CreateImage ==
    /\ ~crashed
    /\ \E sh \in Shapes, device \in Locations :
        \E o \in createImage(image, sh[1], sh[2], sh[3], sh[4], device) :
            /\ Finish(o, "createImage", "none")
            /\ created' = (created \/ o.status = "ok")
            /\ UNCHANGED <<accessors, written>>

CreateImageWithData ==
    /\ ~crashed
    /\ \E sh \in Shapes, device \in Locations, data \in Patterns :
        \E o \in createImageWithData(image, sh[1], sh[2], sh[3], sh[4], device, data) :
            /\ Finish(o, "createImage", "data")
            /\ created' = (created \/ o.status = "ok")
            /\ UNCHANGED <<accessors, written>>

GetImageAccess ==
    /\ ~crashed
    /\ \E type \in AccessTypes :
        \E o \in getImageAccess(image, type) :
            /\ Finish(o, "getImageAccess", type)
            /\ Grant(o, type, Host)

GetOpenCLImageAccess ==
    /\ ~crashed
    /\ \E type \in AccessTypes, device \in Devices :
        \E o \in getOpenCLImageAccess(image, type, device) :
            /\ Finish(o, "getOpenCLImageAccess", type)
            /\ Grant(o, type, device)

Release ==
    /\ ~crashed
    /\ \E k \in AccessorKeys :
        /\ accessors[k] > 0
        /\ Finish(Ok(releaseAccess(image, k[1])), "release", k[2])
        /\ accessors' = [accessors EXCEPT ![k] = @ - 1]
        /\ UNCHANGED <<created, written>>

Write ==
    /\ ~crashed
    /\ \E loc \in Locations, p \in Patterns :
        /\ accessors[<<loc, "ACCESS_READ_WRITE">>] > 0
        /\ \E o \in writeThrough(image, loc, p) :
            /\ Finish(o, "write", "ACCESS_READ_WRITE")
            /\ written' = IF o.status = "ok" /\ contentAt(image, loc) # NoPattern
                          THEN [loc |-> loc, pat |-> p]
                          ELSE written
            /\ UNCHANGED <<accessors, created>>

Next ==
    \/ CreateImage
    \/ CreateImageWithData
    \/ GetImageAccess
    \/ GetOpenCLImageAccess
    \/ Release
    \/ Write

Spec == Init /\ [][Next]_vars

\* ------------------------------------------- the machine of a filter stage
\* one GaussianSmoothingFilter, the object supplied as its input, and the
\* client that wires the stage, holds its output and pulls it
World == [stage |-> stage, heap |-> heap, hist |-> hist]

StageInit ==
    /\ image = Image2D
    /\ accessors = [k \in AccessorKeys |-> 0]
    /\ crashed = FALSE
    /\ lastCall = NoCall
    /\ lastStatus = "ok"
    /\ created = FALSE
    /\ written = NoWrite
    /\ calls = 0
    /\ stage = GaussianSmoothingFilter(DefaultComputationDevice)
    /\ \E in \in Inputs : heap = [id \in {InputId} |-> in]
    /\ hist = NoWork
    /\ threads = NoThreads
    /\ loop = NoLoop

Setters == {"setDevice", "setMaskSize", "setStandardDeviation"}

\* the history of outcome o of a call of op, with the pulls since the last setter
Tracked(o, op) ==
    LET h == o.img.hist
    IN  IF op \in Setters /\ o.status = "ok" /\ stage.mInput # NoObject
        THEN [h EXCEPT !.tracking = TRUE, !.pulls = << >>,
                       !.masksAtSetter = h.masks, !.compilesAtSetter = h.compiles]
        ELSE IF op = "execute" /\ h.tracking
        THEN [h EXCEPT !.pulls = Append(@, o.status)]
        ELSE [h EXCEPT !.tracking = FALSE, !.pulls = << >>,
                       !.masksAtSetter = 0, !.compilesAtSetter = 0]

\* the common end of every call on the stage: o is the outcome the call had
StageFinish(o, op, arg) ==
    /\ calls < MaxStageCalls
    /\ calls' = calls + 1
    /\ lastCall' = [op |-> op, type |-> arg]
    /\ lastStatus' = o.status
    /\ crashed' = (o.status = "crash")
    /\ stage' = IF o.status = "crash" THEN stage ELSE o.img.stage
    /\ heap' = IF o.status = "crash" THEN heap ELSE o.img.heap
    /\ hist' = IF o.status = "crash" THEN hist ELSE Tracked(o, op)
    /\ UNCHANGED <<image, accessors, created, written, threads, loop>>

\* the outputs of the stage that the client holds a reference to
HeldOutputs == {id \in DOMAIN heap \ {InputId} : heap[id].holders > 0}

SetInput ==
    /\ ~crashed
    /\ \E input \in {NoObject, InputId} \cup HeldOutputs :
        \E o \in setInput(World, input) :
            StageFinish(o, "setInput", IF input = NoObject THEN "null" ELSE "object")

SetDevice ==
    /\ ~crashed
    /\ \E device \in Locations :
        \E o \in setDevice(World, device) : StageFinish(o, "setDevice", "none")

SetMaskSize ==
    /\ ~crashed
    /\ \E maskSize \in MaskSizeArgs :
        \E o \in setMaskSize(World, maskSize) :
            StageFinish(o, "setMaskSize", IF maskSize % 2 = 0 THEN "even" ELSE "odd")

SetStandardDeviation ==
    /\ ~crashed
    /\ \E stdDev \in StdDevArgs :
        \E o \in setStandardDeviation(World, stdDev) :
            StageFinish(o, "setStandardDeviation",
                        IF stdDev <= 0 THEN "notPositive" ELSE "positive")

GetOutput ==
    /\ ~crashed
    /\ \E o \in getOutput(World) : StageFinish(o, "getOutput", "none")

\* a holder of an output of the stage lets go of its reference
DropOutput ==
    /\ ~crashed
    /\ \E id \in DOMAIN heap \ {InputId} :
        /\ heap[id].holders > 0
        /\ StageFinish(Ok(Collect([World EXCEPT !.heap[id].holders = @ - 1])), "drop", "none")

Execute ==
    /\ ~crashed
    /\ \E env \in EnvFailures :
        \E o \in execute(World, env) : StageFinish(o, "execute", "none")

StageNext ==
    \/ SetInput
    \/ SetDevice
    \/ SetMaskSize
    \/ SetStandardDeviation
    \/ GetOutput
    \/ DropOutput
    \/ Execute

StageSpec == StageInit /\ [][StageNext]_vars

\* ----------------------------------------------- vocabulary of the claims
\* the flags of the location table, read off the object without its methods
UpToDate(img, loc) ==
    IF loc = Host
    THEN img.mHostDataIsUpToDate
    ELSE loc \in DOMAIN img.mCLImagesIsUpToDate /\ img.mCLImagesIsUpToDate[loc]

Locked(img, loc) ==
    IF loc = Host
    THEN img.mHostDataIsBeingAccessed
    ELSE loc \in DOMAIN img.mCLImagesAccess /\ img.mCLImagesAccess[loc]

AnyLocked(img) == \E loc \in Locations : Locked(img, loc)

AnyUpToDate(img) == \E loc \in Locations : UpToDate(img, loc)

\* a device that has a buffer for the object
HasBuffer(img, d) == d \in DOMAIN img.mCLImages /\ img.mCLImages[d] = "buf"

\* the up-to-date and locked flags of every location
LocationTable(img) ==
    [upToDate |-> <<img.mHostDataIsUpToDate, img.mCLImagesIsUpToDate>>,
     locked |-> <<img.mHostDataIsBeingAccessed, img.mCLImagesAccess>>]

AccessOps == {"getImageAccess", "getOpenCLImageAccess"}

\* this step is an access request of the given type
Requested(type) == lastCall'.op \in AccessOps /\ lastCall'.type = type

\* this step grants an accessor of the given type at loc
GrantedAt(loc, type) ==
    /\ Requested(type)
    /\ lastCall'.op = (IF loc = Host THEN "getImageAccess" ELSE "getOpenCLImageAccess")
    /\ lastStatus' = "ok"
    /\ accessors'[<<loc, type>>] = accessors[<<loc, type>>] + 1

\* this step releases an accessor held at loc
ReleasedAt(loc) ==
    /\ lastCall'.op = "release"
    /\ \E type \in AccessTypes : accessors'[<<loc, type>>] = accessors[<<loc, type>>] - 1

\* ------------------------------------------------------------------ claims

\* C1: once createImage has succeeded, after any sequence of access requests
\* and releases at least one location (host or a device) is marked up to date.
C1_SomeLocationUpToDate == created => AnyUpToDate(image)

\* C2: a ReadWrite request (host or device) made while any location of the
\* object is locked is refused with the already-being-accessed error, no
\* accessor is handed out, and no upToDate or locked flag changes.
C2_WriteRefusedWhileLocked ==
    [][(Requested("ACCESS_READ_WRITE") /\ AnyLocked(image))
          => /\ lastStatus' = "AlreadyAccessed"
             /\ accessors' = accessors
             /\ LocationTable(image') = LocationTable(image)]_vars

\* a device ReadWrite request was refused while the host copy was locked
C2_Witness ==
    /\ lastCall = [op |-> "getOpenCLImageAccess", type |-> "ACCESS_READ_WRITE"]
    /\ lastStatus = "AlreadyAccessed"
    /\ image.mHostDataIsBeingAccessed
    /\ created

\* C3: a ReadWrite request made while no location is locked succeeds, and
\* right afterwards the target location is up to date and locked while every
\* other location (the host and every known device) is not up to date.
C3_WriteGrantInvalidatesOthers ==
    [][(Requested("ACCESS_READ_WRITE") /\ ~AnyLocked(image))
          => /\ lastStatus' = "ok"
             /\ \E loc \in Locations :
                    /\ GrantedAt(loc, "ACCESS_READ_WRITE")
                    /\ UpToDate(image', loc)
                    /\ Locked(image', loc)
                    /\ \A other \in Locations \ {loc} : ~UpToDate(image', other)]_vars

\* a device ReadWrite access was granted on an object whose host copy and
\* whose copy on another device were up to date just before
C3_Witness ==
    /\ lastCall = [op |-> "getOpenCLImageAccess", type |-> "ACCESS_READ_WRITE"]
    /\ lastStatus = "ok"
    /\ image.mHostHasData
    /\ \E d \in Devices :
        /\ accessors[<<d, "ACCESS_READ_WRITE">>] = 1
        /\ UpToDate(image, d) /\ Locked(image, d)
        /\ \E e \in Devices \ {d} : HasBuffer(image, e) /\ ~UpToDate(image, e)

\* C4: while a ReadWrite accessor is outstanding at one location of a created
\* object, no Read access is granted at any other location.
C4_NoReadWhileWriteOutstanding ==
    [][\A l \in Locations, m \in Locations :
          (created /\ l # m /\ accessors[<<l, "ACCESS_READ_WRITE">>] > 0)
              => ~GrantedAt(m, "ACCESS_READ")]_vars

\* C5: a granted Read access (host or device) on a created object locks its
\* location, and no ReadWrite access is granted at any location while a Read
\* accessor (a host one included) is outstanding.
C5_ReadLocksItsLocation ==
    [][created =>
          /\ \A loc \in Locations :
                 GrantedAt(loc, "ACCESS_READ") => Locked(image', loc)
          /\ \A l \in Locations, m \in Locations :
                 accessors[<<l, "ACCESS_READ">>] > 0
                     => ~GrantedAt(m, "ACCESS_READ_WRITE")]_vars

\* C6: after a Read access is granted at a location whose copy was stale (the
\* host, or a device that already has a buffer) while some other location was
\* up to date, the location is marked up to date.
C6_ReadMarksTargetUpToDate ==
    [][\A loc \in Locations :
          (/\ created
           /\ AnyUpToDate(image)
           /\ ~UpToDate(image, loc)
           /\ loc # Host => HasBuffer(image, loc)
           /\ GrantedAt(loc, "ACCESS_READ"))
              => UpToDate(image', loc)]_vars

\* C7: round trip: when pattern P was written through a ReadWrite access at
\* location A of a created object and that accessor has been released, a Read
\* access granted at another location B (touched before or not) sees P.
C7_RoundTrip ==
    [][\A B \in Locations :
          (/\ created
           /\ written # NoWrite
           /\ written.loc # B
           /\ \A k \in AccessorKeys : accessors[k] = 0
           /\ GrantedAt(B, "ACCESS_READ"))
              => contentAt(image', B) = written.pat]_vars

\* C8: releasing an accessor clears the locked flag of its location and
\* changes nothing else: every upToDate flag, every other locked flag and
\* the rest of the object keep their values.
C8_ReleaseOnlyUnlocks ==
    [][\A loc \in Locations :
          ReleasedAt(loc)
              => /\ ~Locked(image', loc)
                 /\ \A l \in Locations : UpToDate(image', l) = UpToDate(image, l)
                 /\ \A l \in Locations \ {loc} : Locked(image', l) = Locked(image, l)
                 /\ DOMAIN image'.mCLImagesAccess = DOMAIN image.mCLImagesAccess
                 /\ [image' EXCEPT !.mHostDataIsBeingAccessed = FALSE,
                                   !.mCLImagesAccess = EmptyMap]
                      = [image EXCEPT !.mHostDataIsBeingAccessed = FALSE,
                                      !.mCLImagesAccess = EmptyMap]]_vars

\* an accessor was released while another location stayed locked and some
\* location is up to date
C8_Witness ==
    /\ lastCall.op = "release"
    /\ \E loc \in Locations, l \in Locations :
        /\ loc # l
        /\ loc \in {Host} \cup DOMAIN image.mCLImagesAccess
        /\ ~Locked(image, loc)
        /\ UpToDate(image, loc)
        /\ Locked(image, l)

\* C9: a Read request (host or device) on a created object none of whose
\* locations is marked up to date fails with the not-up-to-date error.
C9_ReadFailsWhenNothingUpToDate ==
    [][(created /\ Requested("ACCESS_READ") /\ ~AnyUpToDate(image))
          => lastStatus' = "NotUpToDate"]_vars

\* C10: createImage succeeds at most once: a createImage call (with or
\* without data, host or device) on an object an earlier createImage has
\* initialised fails with the already-initialised error and leaves the
\* dimensions, type, component count and location table unchanged.
C10_CreateOnlyOnce ==
    [][(created /\ lastCall'.op = "createImage")
          => /\ lastStatus' = "AlreadyInitialized"
             /\ created'
             /\ image' = image]_vars

\* a second createImage was refused on an object created on a device
C10_Witness ==
    /\ lastCall.op = "createImage"
    /\ lastStatus = "AlreadyInitialized"
    /\ created
    /\ ~image.mHostHasData
    /\ \E d \in Devices : HasBuffer(image, d)

\* C11: after a granted device access, Read or ReadWrite, on a created object
\* at a device that had never touched it, that device has a buffer (the
\* accessor does not refer to a missing buffer).
C11_FirstTouchAllocates ==
    [][\A d \in Devices, type \in AccessTypes :
          (/\ created
           /\ d \notin DOMAIN image.mCLImages
           /\ d \notin DOMAIN image.mCLImagesIsUpToDate
           /\ d \notin DOMAIN image.mCLImagesAccess
           /\ GrantedAt(d, type))
              => HasBuffer(image', d)]_vars

\* ------------------------------------------ vocabulary of the stage claims
\* the step is a call of op on the stage
Called(op) == lastCall'.op = op

\* getOutput has handed the output over and every holder has dropped it since
OutputExpired(w) ==
    /\ w.stage.mOutput # NoObject
    /\ w.stage.mTempOutput = NoObject
    /\ ~IsAlive(w, w.stage.mOutput)

\* the work counters of a history
WorkDone(h) == <<h.pulled, h.masks, h.compiles, h.accesses, h.dispatches, h.created>>

\* C12: dead-branch elision: when getOutput has handed the output to a caller
\* and every holder has dropped it, the next execute does no work at all: no
\* frame is pulled, no mask recomputed, no kernel compiled, no access acquired,
\* nothing dispatched, no timestamp changed.
C12_DeadBranchElision ==
    [][(Called("execute") /\ OutputExpired(World))
          => /\ lastStatus' = "ok"
             /\ WorkDone(hist') = WorkDone(hist)
             /\ heap' = heap
             /\ stage' = stage]_vars

C12_Witness ==
    /\ lastCall.op = "execute"
    /\ lastStatus = "ok"
    /\ OutputExpired(World)
    /\ stage.mRecreateMask
    /\ hist.handovers = 1
    /\ hist.masks = 0

\* C13: after a parameter setter call on a wired stage, two consecutive
\* executes with no call in between both succeed, the mask is recomputed
\* exactly once and the kernel is compiled at most once over the two.  Stated
\* for a Static single-component input while the output is held and the
\* OpenCL runtime refuses nothing.
C13_TwoPullsAfterSetter ==
    (/\ hist.tracking
     /\ Len(hist.pulls) = 2
     /\ heap[InputId].kind = "Image"
     /\ heap[InputId].img.mComponents = 1
     /\ IsAlive(World, stage.mOutput)
     /\ \A i \in 1..2 : hist.pulls[i] # "CLError")
        => /\ hist.pulls = <<"ok", "ok">>
           /\ hist.masks - hist.masksAtSetter = 1
           /\ hist.compiles - hist.compilesAtSetter <= 1

\* C14: setMaskSize with an even value (0 included) and setStandardDeviation
\* with a value that is not positive fail with an exception and leave the
\* mask size, the standard deviation, the modified flag and the mask-dirty
\* flag (the whole stage) as they were.
C14_InvalidParameterRejected ==
    [][(\/ Called("setMaskSize") /\ lastCall'.type = "even"
        \/ Called("setStandardDeviation") /\ lastCall'.type = "notPositive")
          => /\ lastStatus' = "Exception"
             /\ stage' = stage]_vars

C14_Witness ==
    /\ lastCall = [op |-> "setMaskSize", type |-> "even"]
    /\ lastStatus = "Exception"
    /\ ~stage.mRecreateMask
    /\ stage.mMaskSize = 3

\* C15: getOutput on a stage with no input bound fails with an exception and
\* neither creates nor hands out an output object.
C15_GetOutputNeedsInput ==
    [][(Called("getOutput") /\ stage.mInput = NoObject)
          => /\ lastStatus' = "Exception"
             /\ stage' = stage
             /\ heap' = heap
             /\ hist'.created = hist.created
             /\ hist'.handovers = hist.handovers
             /\ hist'.returned = hist.returned]_vars

C15_Witness ==
    /\ lastCall.op = "getOutput"
    /\ lastStatus = "Exception"
    /\ stage.mInput = NoObject
    /\ stage.mOutput = NoObject
    /\ DOMAIN heap = {InputId}
    /\ hist.returned = NoReturn

\* C16 as stated: over any sequence of setInput and getOutput calls the owning
\* hand-over of an output happens once only.
C16_SingleHandOver == hist.handovers <= 1

\* C16, amended: the owning hand-over happens once for every setInput.  The
\* first getOutput after a setInput gives the caller the only strong
\* reference to the placeholder that setInput made, the stage keeping a weak
\* one; every later getOutput before the next setInput makes and hands over
\* no placeholder, changes nothing in the stage, and returns that same object
\* as long as a holder keeps it alive.
C16_HandOverOncePerSetInput ==
    [][(Called("getOutput") /\ lastStatus' = "ok")
          => /\ hist'.created = hist.created
             /\ hist'.handovers <= hist'.created
             /\ IF stage.mTempOutput # NoObject
                THEN /\ hist'.returned = stage.mTempOutput
                     /\ hist'.handovers = hist.handovers + 1
                     /\ stage'.mTempOutput = NoObject
                     /\ stage'.mOutput = hist'.returned
                     /\ heap'[hist'.returned].holders = 1
                ELSE /\ hist'.handovers = hist.handovers
                     /\ stage' = stage
                     /\ IsAlive(World, stage.mOutput)
                            => /\ hist'.returned = stage.mOutput
                               /\ DOMAIN heap' = DOMAIN heap]_vars

C16_Witness ==
    /\ lastCall.op = "getOutput"
    /\ lastStatus = "ok"
    /\ hist.created = 2
    /\ hist.handovers = 2
    /\ hist.returned = stage.mOutput
    /\ stage.mTempOutput = NoObject
    /\ IsAlive(World, hist.returned)

\* C17: getOutput after the handed-out output was dropped by every holder
\* fails (output expired); it does not return a null reference as a result.
C17_ExpiredOutputRefused ==
    [][(Called("getOutput") /\ OutputExpired(World))
          => /\ lastStatus' # "ok"
             /\ hist'.returned # NoObject]_vars

\* C18: setInput with a null object fails with an exception (missing input)
\* and leaves bound input, output placeholder and modified flag unchanged.
C18_NullInputRefused ==
    [][(Called("setInput") /\ lastCall'.type = "null")
          => /\ lastStatus' = "Exception"
             /\ stage' = stage]_vars

\* the input is a sequence of frames and the output of the stage is held
DynamicAndRetained(w) ==
    /\ w.stage.mInput # NoObject
    /\ w.heap[w.stage.mInput].kind = "DynamicImage"
    /\ IsAlive(w, w.stage.mOutput)

\* C19: with a Dynamic input of F frames and a retained output, the i-th
\* successful execute consumes the i-th input frame and appends exactly one
\* output frame computed from it; an execute past the last frame reports that
\* there is no more data and processes nothing.
C19_FramesInOrder ==
    [][(Called("execute") /\ DynamicAndRetained(World))
          => LET in == heap[stage.mInput]
                 out == heap[stage.mOutput]
                 out2 == heap'[stage.mOutput]
                 i == hist'.dispatches
             IN  /\ lastStatus' = "ok"
                    => /\ in.cursor = i
                       /\ heap'[stage.mInput].cursor = i + 1
                       /\ Len(out2.frames) = Len(out.frames) + 1
                       /\ out2.frames[Len(out2.frames)].frameNo = i
                 /\ in.cursor > Len(in.frames)
                    => /\ lastStatus' = "NoMoreData"
                       /\ heap' = heap
                       /\ hist'.dispatches = hist.dispatches]_vars

\* the execute of this step got past the tests of input and output
Started(w) == w.stage.mInput # NoObject /\ IsAlive(w, w.stage.mOutput)

\* C20: when an execute fails after it has started, the error reaches the
\* caller, the stage stays modified, no input frame has been consumed and no
\* additional or half-initialized output is left behind, so that the next
\* execute re-attempts the same work.
C20_FailedExecuteLeavesNoTrace ==
    [][(Called("execute") /\ Started(World) /\ lastStatus' \notin {"ok", "crash"})
          => LET in == heap[stage.mInput]
                 out == heap[stage.mOutput]
             IN  /\ stage'.mIsModified
                 /\ heap'[stage.mInput].cursor = in.cursor
                 /\ Len(heap'[stage.mOutput].frames) = Len(out.frames)
                 /\ isInitialized(heap'[stage.mOutput].img) = isInitialized(out.img)]_vars

\* ------------------------------------------ further claims on the object
\* C22: in every reachable state at most one ReadWrite accessor of the object
\* is outstanding: a second ReadWrite request, at any location, is refused
\* while the first has not been released.
C22_OneWriterAtATime ==
    LET RECURSIVE writers(_)
        writers(S) == IF S = {} THEN 0
                      ELSE LET l == CHOOSE l \in S : TRUE
                           IN  accessors[<<l, "ACCESS_READ_WRITE">>] + writers(S \ {l})
    IN  writers(Locations) <= 1

\* C23: a Read access granted at device B while the host copy is stale and
\* another device A holds the only up-to-date copy brings A's content to the
\* host and from there to B; afterwards the host and A are marked up to date.
C23_DeviceToDeviceViaHost ==
    [][\A A \in Devices : \A B \in Devices \ {A} :
          (/\ created
           /\ UpToDate(image, A) /\ HasBuffer(image, A)
           /\ \A loc \in Locations \ {A} : ~UpToDate(image, loc)
           /\ GrantedAt(B, "ACCESS_READ"))
              => /\ contentAt(image', Host) = contentAt(image, A)
                 /\ contentAt(image', B) = contentAt(image, A)
                 /\ UpToDate(image', Host)
                 /\ UpToDate(image', A)]_vars

\* ------------------------------------------- further claims on the stage
\* C21: wiring that would make a loop (setInput with an object that the
\* stage's own output port produced) is rejected, so that in every reachable
\* state the input of the stage was not produced by the stage itself.
C21_NoCycle == stage.mInput # NoObject => ~heap[stage.mInput].parent

\* C24: every successful parameter setter (setDevice, setMaskSize,
\* setStandardDeviation) leaves the modified flag and the mask-dirty flag
\* set, whatever they were before.
C24_SettersMarkDirty ==
    [][(lastCall'.op \in Setters /\ lastStatus' = "ok")
          => /\ stage'.mIsModified
             /\ stage'.mRecreateMask]_vars

\* a setter has set the mask-dirty flag again after an execute had cleared it
C24_Witness ==
    /\ lastCall.op = "setDevice"
    /\ lastStatus = "ok"
    /\ hist.masks = 1
    /\ hist.dispatches = 1
    /\ stage.mMask = <<3, 1, 2>>
    /\ stage.mIsModified
    /\ stage.mRecreateMask

DataTypes == {"TYPE_FLOAT", "TYPE_INT8", "TYPE_INT16", "TYPE_UINT8", "TYPE_UINT16"}

KernelInputs == {ImportedImage(<<<<4, 4, t, 1>>, d>>, 1) : t \in DataTypes, d \in {2, 3}}

KernelInit ==
    /\ image = Image2D
    /\ accessors = [k \in AccessorKeys |-> 0]
    /\ crashed = FALSE
    /\ lastCall = NoCall
    /\ lastStatus = "ok"
    /\ created = FALSE
    /\ written = NoWrite
    /\ calls = 0
    /\ stage = GaussianSmoothingFilter(DefaultComputationDevice)
    /\ \E in \in KernelInputs : heap = [id \in {InputId} |-> in]
    /\ hist = NoWork
    /\ threads = NoThreads
    /\ loop = NoLoop

RecompileOpenCLCode ==
    /\ ~crashed
    /\ \E in \in KernelInputs, env \in {"none", "compile"} :
        LET w == [World EXCEPT !.heap = [id \in {InputId} |-> in]]
        IN  \E o \in recompileOpenCLCode(w, in, env) :
                StageFinish(o, "recompileOpenCLCode", "none")

KernelNext ==
    \/ RecompileOpenCLCode
    \/ SetDevice

KernelSpec == KernelInit /\ [][KernelNext]_vars

\* the signature of an input: dimensionality and element-type class
Signature(in) == <<in.dims, BuildOptions(in.img.mType)>>

\* the signature the cached kernel was compiled for
CompiledSignature(st) ==
    IF st.mDimensionCLCodeCompiledFor = 0
    THEN <<0, "none">>
    ELSE <<st.mDimensionCLCodeCompiledFor, BuildOptions(st.mTypeCLCodeCompiledFor)>>

\* C26: the kernel cache recompiles if and only if the signature
\* (dimensionality, element-type class) of the input differs from the one
\* last compiled: an input of the same dimensionality and class as the last
\* one (8-bit signed after 16-bit signed) causes no recompilation.
C26_RecompileOnSignatureChange ==
    [][(Called("recompileOpenCLCode") /\ lastStatus' = "ok")
          => (hist'.compiles = hist.compiles + 1
                 <=> Signature(heap'[InputId]) # CompiledSignature(stage))]_vars

\* C27: at every device dispatch the kernel in use was compiled for the
\* stage's current device: after setDevice has moved the stage to another
\* accelerator the next execute recompiles the kernel.
C27_KernelOfCurrentDevice ==
    [][(/\ Called("execute")
        /\ stage.mDevice # Host
        /\ hist'.dispatches = hist.dispatches + 1)
          => /\ stage'.mKernel # NoKernel
             /\ stage'.mKernel[3] = stage.mDevice]_vars

\* the input is one Static image and the output of the stage is held
StaticAndRetained(w) ==
    /\ w.stage.mInput # NoObject
    /\ w.heap[w.stage.mInput].kind = "Image"
    /\ IsAlive(w, w.stage.mOutput)

\* C28: execute initialises the output only when it is not initialised yet:
\* an execute on a Static input whose output an earlier execute has
\* initialised does not fail with the already-initialised error.
C28_OutputCreatedOnce ==
    [][(/\ Called("execute")
        /\ StaticAndRetained(World)
        /\ isInitialized(heap[stage.mOutput].img))
          => lastStatus' # "AlreadyInitialized"]_vars

\* C29: for a Static input every release that execute issues on (input,
\* device) is matched by an earlier retain on that input and device that has
\* not been released: no per-device retain count goes below zero.
C29_ReleaseMatchesRetain ==
    \A id \in DOMAIN heap : \A l \in Locations : heap[id].retained[l] >= 0

\* C30: every successful execute that is not elided strictly increases the
\* modification timestamp of the stage's output object (the one getOutput
\* returns), for Static and Dynamic inputs alike; an elided or failed execute
\* leaves it unchanged.
C30_TimestampBumped ==
    [][(Called("execute") /\ Started(World))
          => LET before == heap[stage.mOutput].timestamp
                 after == heap'[stage.mOutput].timestamp
             IN  IF lastStatus' = "ok" THEN after > before ELSE after = before]_vars

\* ------------------------------------------- further claims on the stage
\* C31: after a successful execute that was not elided the stage's modified
\* flag is false.
C31_ExecuteClearsModified ==
    [][(Called("execute") /\ Started(World) /\ lastStatus' = "ok")
          => ~stage'.mIsModified]_vars

\* C32: on the device path of execute the Read access on the input and the
\* ReadWrite access on the output are both still held, their locations
\* locked, when the kernel is enqueued.
C32_AccessHeldAtDispatch ==
    [][(/\ Called("execute")
        /\ stage.mDevice # Host
        /\ hist'.dispatches = hist.dispatches + 1)
          => hist'.heldAtDispatch = <<TRUE, TRUE>>]_vars

\* ------------------------------------- the machine of concurrent requests
\* threads request access to one created object without any mutual exclusion;
\* a request is the three parts of getImageAccess / getOpenCLImageAccess,
\* and the steps of different threads interleave between the parts

\* the test that a ReadWrite request makes first
checkAccess(s, type) ==
    IF type = "ACCESS_READ_WRITE" /\ isAnyDataBeingAccessed(s)
    THEN {Throw(s, "AlreadyAccessed")}
    ELSE {Ok(s)}

\* the flags that a request sets after the test
setAccessFlags(s, type, loc) ==
    IF loc = Host
    THEN IF type = "ACCESS_READ_WRITE"
         THEN [setAllDataToOutOfDate(s) EXCEPT !.mHostDataIsUpToDate = TRUE,
                                               !.mHostDataIsBeingAccessed = TRUE]
         ELSE s
    ELSE LET s1 == IF type = "ACCESS_READ_WRITE"
                   THEN LET t == setAllDataToOutOfDate(s)
                        IN  [t EXCEPT !.mCLImagesIsUpToDate =
                                          Put(t.mCLImagesIsUpToDate, loc, TRUE)]
                   ELSE s
         IN  [s1 EXCEPT !.mCLImagesAccess = Put(s1.mCLImagesAccess, loc, TRUE)]

\* a variant that makes the test once more, in one piece with the flags
markAccess_ChecksAgain(s, type, loc) ==
    IF type = "ACCESS_READ_WRITE" /\ isAnyDataBeingAccessed(s)
    THEN {Throw(s, "AlreadyAccessed")}
    ELSE {Ok(setAccessFlags(s, type, loc))}

markAccess(s, type, loc) == {Ok(setAccessFlags(s, type, loc))}

\* the update of the data at loc and the construction of the accessor
fetchAccess(s, loc) ==
    IF loc = Host
    THEN updateHostData(s)
    ELSE Then(updateOpenCLImageData(s, loc),
              LAMBDA t : {Ok([t EXCEPT !.mCLImages = Touch(t.mCLImages, loc, "NULL"),
                                       !.mCLImagesAccess =
                                           Touch(t.mCLImagesAccess, loc, FALSE)])})

\* the three parts in one piece
requestAccess(s, type, loc) ==
    Then(checkAccess(s, type), LAMBDA s1 :
    Then(markAccess(s1, type, loc), LAMBDA s2 : fetchAccess(s2, loc)))

\* the parts make up the methods
PartsMakeTheMethods ==
    \A type \in AccessTypes :
        /\ requestAccess(image, type, Host) = getImageAccess(image, type)
        /\ \A d \in Devices :
            requestAccess(image, type, d) = getOpenCLImageAccess(image, type, d)

\* the object that the threads share, after its creation with data
SharedImages ==
    {o.img : o \in {o \in UNION {createImageWithData(Image2D, 4, 4, "TYPE_FLOAT", 1, l, p)
                                    : l \in Locations, p \in Patterns}
                     : o.status = "ok"}}

ThreadInit ==
    /\ image \in SharedImages
    /\ accessors = [k \in AccessorKeys |-> 0]
    /\ crashed = FALSE
    /\ lastCall = NoCall
    /\ lastStatus = "ok"
    /\ created = TRUE
    /\ written = NoWrite
    /\ calls = 0
    /\ stage = GaussianSmoothingFilter(Host)
    /\ heap = EmptyMap
    /\ hist = NoWork
    /\ threads = NoThreads
    /\ loop = NoLoop

\* the end of one part of the request of thread t: o is its outcome, pc the
\* part that follows when it went well
ThreadStep(t, o, type, loc, pc) ==
    /\ lastCall' = [op |-> IF loc = Host THEN "getImageAccess" ELSE "getOpenCLImageAccess",
                    type |-> type]
    /\ lastStatus' = o.status
    /\ crashed' = (o.status = "crash")
    /\ image' = IF o.status = "crash" THEN image ELSE o.img
    /\ threads' = [threads EXCEPT ![t] = IF o.status = "ok"
                                         THEN [pc |-> pc, type |-> type, loc |-> loc]
                                         ELSE Idle]
    /\ accessors' = IF o.status = "ok" /\ pc = "granted"
                    THEN [accessors EXCEPT ![<<loc, type>>] = @ + 1]
                    ELSE accessors
    /\ UNCHANGED <<created, written, stage, heap, hist, loop>>

\* thread t enters a request and makes the test
CheckAccess(t) ==
    /\ ~crashed
    /\ threads[t].pc = "idle"
    /\ calls < MaxRequests
    /\ calls' = calls + 1
    /\ \E type \in AccessTypes, loc \in Locations :
        \E o \in checkAccess(image, type) : ThreadStep(t, o, type, loc, "checked")

\* thread t sets the flags of its request
MarkAccess(t) ==
    /\ ~crashed
    /\ threads[t].pc = "checked"
    /\ \E o \in markAccess(image, threads[t].type, threads[t].loc) :
        ThreadStep(t, o, threads[t].type, threads[t].loc, "marked")
    /\ UNCHANGED calls

\* thread t updates the data and receives its accessor
FetchAccess(t) ==
    /\ ~crashed
    /\ threads[t].pc = "marked"
    /\ \E o \in fetchAccess(image, threads[t].loc) :
        ThreadStep(t, o, threads[t].type, threads[t].loc, "granted")
    /\ UNCHANGED calls

\* thread t destroys its accessor
ReleaseAccess(t) ==
    /\ ~crashed
    /\ threads[t].pc = "granted"
    /\ image' = releaseAccess(image, threads[t].loc)
    /\ threads' = [threads EXCEPT ![t] = Idle]
    /\ accessors' = [accessors EXCEPT ![<<threads[t].loc, threads[t].type>>] = @ - 1]
    /\ lastCall' = [op |-> "release", type |-> threads[t].type]
    /\ lastStatus' = "ok"
    /\ UNCHANGED <<crashed, created, written, calls, stage, heap, hist, loop>>

ThreadNext ==
    \/ \E t \in Threads : CheckAccess(t)
    \/ \E t \in Threads : MarkAccess(t)
    \/ \E t \in Threads : FetchAccess(t)
    \/ \E t \in Threads : ReleaseAccess(t)

ThreadSpec == ThreadInit /\ [][ThreadNext]_vars

\* thread t holds an accessor of the type
Holds(t, type) == threads[t].pc = "granted" /\ threads[t].type = type

\* C33: the access bookkeeping is not atomic: a thread whose ReadWrite request
\* has passed the is-anything-locked test sets its flags and is not refused,
\* whatever the other threads have locked since the test, so that two threads
\* whose requests interleave are both granted ReadWrite access.
C33_CheckThenMarkNotAtomic ==
    [][\A t \in Threads :
          (threads[t].pc = "checked" /\ threads'[t] # threads[t])
              => threads'[t].pc = "marked"]_vars

\* two threads hold a ReadWrite accessor and nothing has been released
C33_Witness ==
    /\ calls = 2
    /\ \E t \in Threads : \E u \in Threads \ {t} :
        /\ Holds(t, "ACCESS_READ_WRITE")
        /\ Holds(u, "ACCESS_READ_WRITE")

\* ------------------------------------------ further claims on the object
\* C34: in every reachable state each location marked up to date holds the
\* content of the most recent write (the last write through a ReadWrite
\* accessor, or the initial data): it has a buffer, the locations marked up
\* to date agree with each other, and they hold the pattern last written.
C34_UpToDateHoldsLatest ==
    created =>
        \A l \in Locations :
            UpToDate(image, l) =>
                /\ contentAt(image, l) # NoPattern
                /\ written # NoWrite => contentAt(image, l) = written.pat
                /\ \A m \in Locations :
                       UpToDate(image, m) => contentAt(image, m) = contentAt(image, l)

\* C35: under single-threaded use the error 'Data was not updated because no
\* data was marked as up to date' is unreachable: no call ends with it, and
\* once a device has an entry in the location table some location is marked
\* up to date, so that the search of updateOpenCLImageData and updateHostData
\* always finds a copy.
C35_NotUpToDateUnreachable ==
    /\ lastStatus # "NotUpToDate"
    /\ DOMAIN image.mCLImagesIsUpToDate # {} => AnyUpToDate(image)

\* a host Read has searched the devices for a copy and has found one
C35_Witness ==
    /\ lastCall = [op |-> "getImageAccess", type |-> "ACCESS_READ"]
    /\ lastStatus = "ok"
    /\ ~image.mHostDataIsUpToDate
    /\ DOMAIN image.mCLImages # {}

\* C36: the locked flag of a location is true whenever at least one accessor
\* for that location is outstanding: releasing one of two accessors granted
\* at the same location does not unlock it.
C36_LockedWhileAccessorOutstanding ==
    \A l \in Locations :
        accessors[<<l, "ACCESS_READ">>] + accessors[<<l, "ACCESS_READ_WRITE">>] > 0
            => Locked(image, l)

\* ------------------------------------------- further claims on the stage
\* the image that the execute of this step works on: the Static input, or
\* the frame of the Dynamic input that was next when the step began
ProcessedInput ==
    LET inId == stage.mInput
    IN  IF heap[inId].kind = "DynamicImage"
        THEN ImgAt(heap', <<inId, heap[inId].cursor>>)
        ELSE ImgAt(heap', <<inId, 0>>)

\* C37: at every dispatch the cached mask was computed for the dimensionality
\* (2-D or 3-D) of the input that is processed: a Dynamic frame, or a newly
\* bound input, of another dimensionality has the mask recomputed first.
C37_MaskOfInputDimension ==
    [][(Called("execute") /\ Started(World) /\ hist'.dispatches = hist.dispatches + 1)
          => /\ stage'.mMask # NoMask
             /\ stage'.mMask[3] = ProcessedInput.dims]_vars

\* C38: the device retain taken on a Static input at setInput is released
\* once the stage is pulled: an execute that returns normally on a stage
\* whose Static input is retained on the stage's device releases it there,
\* also when the execute is elided because nobody holds the output.
C38_PullReleasesRetain ==
    [][(/\ Called("execute")
        /\ lastStatus' = "ok"
        /\ stage.mInput # NoObject
        /\ heap[stage.mInput].kind = "Image"
        /\ heap[stage.mInput].retained[stage.mDevice] > 0)
          => heap'[stage.mInput].retained[stage.mDevice]
                 < heap[stage.mInput].retained[stage.mDevice]]_vars

\* ---------------------------------- the machine of the host algorithm
\* the loops of executeAlgorithmOnHost, run on images of every small size with
\* every small odd mask; one step per loop test and per pixel

TwoTo16 == 2^16

\* the unsigned 32-bit difference a - b of a, b < 2^16, as <<high, low>> halves
Sub32(a, b) ==
    IF a >= b THEN <<0, a - b>> ELSE <<TwoTo16 - 1, TwoTo16 - (b - a)>>

\* the unsigned comparison v < p of v < 2^16 with the 32-bit value p
Below32(v, p) == p[1] > 0 \/ v < p[2]

\* const unsigned char halfSize = (maskSize-1)/2
halfSize(maskSize) == (maskSize - 1) \div 2

\* the upper bound of a loop: size - halfSize in unsigned 32-bit arithmetic
upperBound(size, maskSize) == Sub32(size, halfSize(maskSize))

HostMaskSizes == {1, 3, 5}

Sides == 1..MaxSide

\* the number of elements of inputData and of outputData
nrOfPixels(l) == l.width * l.height * (IF l.dims = 3 THEN l.depth ELSE 1)

\* the indices that the loop body uses for the pixel at (x, y, z): those it
\* reads from inputData and the one it writes in outputData
pixelIndices(l) ==
    LET h == halfSize(l.maskSize)
        R == (0 - h)..h
    IN  IF l.dims = 3
        THEN {l.x + a + (l.y + b) * l.width + (l.z + c) * l.width * l.height
                 : a \in R, b \in R, c \in R}
             \cup {l.x + l.y * l.width + l.z * l.width * l.height}
        ELSE {l.x + a + (l.y + b) * l.width : a \in R, b \in R}
             \cup {l.x + l.y * l.width}

HostInit ==
    /\ image = Image2D
    /\ accessors = [k \in AccessorKeys |-> 0]
    /\ crashed = FALSE
    /\ lastCall = NoCall
    /\ lastStatus = "ok"
    /\ created = FALSE
    /\ written = NoWrite
    /\ calls = 0
    /\ stage = GaussianSmoothingFilter(Host)
    /\ heap = EmptyMap
    /\ hist = NoWork
    /\ threads = NoThreads
    /\ loop = NoLoop

\* the algorithm is entered: the outermost loop variable gets its first value
StartLoops ==
    /\ loop.pc = "idle"
    /\ \E dims \in {2, 3}, width \in Sides, height \in Sides, depth \in Sides,
          maskSize \in HostMaskSizes :
        /\ dims = 2 => depth = 1
        /\ loop' = [pc |-> IF dims = 3 THEN "z" ELSE "y",
                    dims |-> dims, width |-> width, height |-> height, depth |-> depth,
                    maskSize |-> maskSize,
                    x |-> 0,
                    y |-> IF dims = 3 THEN 0 ELSE halfSize(maskSize),
                    z |-> IF dims = 3 THEN halfSize(maskSize) ELSE 0,
                    pixels |-> 0, strayed |-> FALSE]
    /\ UNCHANGED <<image, accessors, crashed, lastCall, lastStatus, created, written,
                   calls, stage, heap, hist, threads>>

\* the test of the z loop, of the y loop, or the failed test of the x loop;
\* a loop whose bound has wrapped around is followed for MaxSide rounds
NextLine ==
    /\ ~crashed /\ ~loop.strayed
    /\ loop.y <= MaxSide /\ loop.z <= MaxSide
    /\ LET h == halfSize(loop.maskSize)
       IN  \/ /\ loop.pc = "z"
              /\ loop' = IF Below32(loop.z, upperBound(loop.depth, loop.maskSize))
                         THEN [loop EXCEPT !.pc = "y", !.y = h]
                         ELSE [loop EXCEPT !.pc = "done"]
           \/ /\ loop.pc = "y"
              /\ loop' = IF Below32(loop.y, upperBound(loop.height, loop.maskSize))
                         THEN [loop EXCEPT !.pc = "x", !.x = h]
                         ELSE IF loop.dims = 3
                         THEN [loop EXCEPT !.pc = "z", !.z = @ + 1]
                         ELSE [loop EXCEPT !.pc = "done"]
           \/ /\ loop.pc = "x"
              /\ ~Below32(loop.x, upperBound(loop.width, loop.maskSize))
              /\ loop' = [loop EXCEPT !.pc = "y", !.y = @ + 1]
    /\ UNCHANGED <<image, accessors, crashed, lastCall, lastStatus, created, written,
                   calls, stage, heap, hist, threads>>

\* the body of the loops for one pixel; an index outside the arrays is
\* undefined behaviour: the process dies, or goes on with memory that is not
\* the image's (the run is followed up to there)
ProcessPixel ==
    /\ ~crashed /\ ~loop.strayed
    /\ loop.pc = "x"
    /\ Below32(loop.x, upperBound(loop.width, loop.maskSize))
    /\ LET inside == pixelIndices(loop) \subseteq 0..(nrOfPixels(loop) - 1)
       IN  \/ /\ loop' = [loop EXCEPT !.x = @ + 1, !.pixels = @ + 1,
                                      !.strayed = ~inside]
              /\ UNCHANGED crashed
           \/ /\ ~inside
              /\ crashed' = TRUE
              /\ UNCHANGED loop
    /\ UNCHANGED <<image, accessors, lastCall, lastStatus, created, written,
                   calls, stage, heap, hist, threads>>

HostNext ==
    \/ StartLoops
    \/ NextLine
    \/ ProcessPixel

HostSpec == HostInit /\ [][HostNext]_vars

\* the sides of the image that the loops run over
SidesOf(l) == IF l.dims = 3 THEN {l.width, l.height, l.depth} ELSE {l.width, l.height}

\* C39: for every image size and every odd mask size the host algorithm reads
\* and writes only indices inside the image: when a side is smaller than half
\* the mask size the loop's upper bound size - halfSize does not wrap around
\* and no pixel is processed.
C39_HostLoopsInsideImage ==
    loop.pc # "idle" =>
        /\ ~loop.strayed
        /\ ~crashed
        /\ \A side \in SidesOf(loop) :
               side < halfSize(loop.maskSize)
                   => /\ upperBound(side, loop.maskSize)[1] = 0
                      /\ loop.pixels = 0

====
